---- MODULE Spec2Model ----
(***************************************************************************)
(* Model of the Mindstorms command bridge: the controlRobot HTTP handler   *)
(* (index.js), the TCP session of sendCommandToRobot (index.js) and the    *)
(* authentication / rate-limit gate (auth.js, carried in test-client.js).  *)
(*                                                                         *)
(* JavaScript values are records [t, s, n]: t is the typeof tag, s the     *)
(* content of a string, n the value of a number.  An absent request        *)
(* parameter reads as undefined, as a property lookup does.                *)
(***************************************************************************)
EXTENDS Integers, Sequences, FiniteSets, TLC

VARIABLES
    req,            \* the HTTP request of this invocation
    pc,             \* "pending" | "awaiting" (suspended at the await) | "done"
    responses,      \* the HTTP responses sent with res.status(..).json(..)
    requestCounts,  \* auth.js: Map clientId -> list of accepted timestamps
    cleanups,       \* auth.js: pending setTimeout cleanups, [client, due]
    now,            \* Date.now(), in ms
    sock,           \* "none" | "connecting" | "connected" | "destroyed" | "closed"
    wireCommand,    \* sendCommandToRobot: its `command`, the wire record
    outcome,        \* the promise of sendCommandToRobot
    buffer,         \* the data handler's accumulation buffer
    written,        \* what client.write put on the wire
    lastActive,     \* last socket activity: the idle timer is due at +CONNECTION_TIMEOUT
    startedAt,      \* when the session was created
    connectedAt,    \* when the connect callback ran (-1 before)
    received,       \* history: the bytes of every data event, concatenated
    decoded,        \* history: the chunks as decoded by data.toString(), concatenated
    peerEnded,      \* history: the peer closed the connection
    log,            \* history: the session's effects, in order
    calls,          \* history: every rateLimitCheck call, [client, time, accepted]
    parked          \* the other invocation in flight, while this one's callbacks run

vars == <<req, pc, responses, requestCounts, cleanups, now, wireCommand, sock,
          outcome, buffer, written, lastActive, startedAt, connectedAt,
          received, decoded, peerEnded, log, calls, parked>>

sessionVars == <<sock, outcome, buffer, written, lastActive,
                 startedAt, connectedAt, received, decoded, peerEnded, log>>

----------------------------------------------------------------------------
(* Program constants *)

CONNECTION_TIMEOUT == 5000
RATE_LIMIT_WINDOW == 60000
MAX_REQUESTS_PER_WINDOW == 100
MAX_SPEED == 2000
MAX_DURATION == 10
MAX_TEXT_LENGTH == 500

(* Bounds of the model *)

TickMs == 2500          \* largest step of the clock
MaxStream == 2          \* characters the peer sends in one session
MaxChunk == 2           \* characters in one data chunk

----------------------------------------------------------------------------
(* JavaScript values *)

Undefined == [t |-> "undefined", s |-> "", n |-> 0]
Null == [t |-> "null", s |-> "", n |-> 0]
Num(k) == [t |-> "number", s |-> "", n |-> k]
Str(x) == [t |-> "string", s |-> x, n |-> 0]

\* ToBoolean: undefined, null, 0 and '' are falsy
Truthy(x) ==
    CASE x.t = "undefined" -> FALSE
      [] x.t = "null" -> FALSE
      [] x.t = "number" -> x.n # 0
      [] x.t = "string" -> x.s # ""
      [] OTHER -> TRUE

\* a || b
OrElse(a, b) == IF Truthy(a) THEN a ELSE b

\* a string of k characters
RECURSIVE Rep(_)
Rep(k) ==
    IF k = 0 THEN ""
    ELSE IF k % 2 = 0 THEN LET h == Rep(k \div 2) IN h \o h
    ELSE "a" \o Rep(k - 1)

ParamNames == {"speed", "duration", "text", "frequency",
               "l_left", "l_forward", "r_left", "r_forward", "note", "action"}

\* params.<k>
Param(params, k) == params[k]

----------------------------------------------------------------------------
(* validateCommand(command, params): "" when it returns, else the message *)
(* of the Error it throws.                                                 *)

validCommands ==
    {"forward", "backward", "left", "right", "turret_left", "turret_right",
     "stop", "stop_turret", "get_status", "joystick_control", "get_help",
     "speak", "battery", "beep"}

\* the speed check with >= for > at the upper limit
SpeedOutOfRangeOffByOne(params) ==
    Truthy(Param(params, "speed"))
    /\ (Param(params, "speed").n < 0 \/ Param(params, "speed").n >= MAX_SPEED)

\* params.speed && (params.speed < 0 || params.speed > 2000)
SpeedOutOfRange(params) ==
    Truthy(Param(params, "speed"))
    /\ (Param(params, "speed").n < 0 \/ Param(params, "speed").n > MAX_SPEED)

\* params.duration && params.duration > 10
DurationOutOfRange(params) ==
    Truthy(Param(params, "duration")) /\ Param(params, "duration").n > MAX_DURATION

\* !params.text || typeof params.text !== 'string'
TextMissing(params) ==
    ~Truthy(Param(params, "text")) \/ Param(params, "text").t # "string"

\* the length check with >= for >
TextTooLongOffByOne(params) == Len(Param(params, "text").s) >= MAX_TEXT_LENGTH

\* params.text.length > 500
TextTooLong(params) == Len(Param(params, "text").s) > MAX_TEXT_LENGTH

validateCommand(command, params) ==
    IF ~(command.t = "string" /\ command.s \in validCommands)
    THEN "Invalid command: " \o command.s
    ELSE IF SpeedOutOfRange(params)
    THEN "Speed must be between 0 and 2000"
    ELSE IF DurationOutOfRange(params)
    THEN "Duration cannot exceed 10 seconds for safety"
    ELSE IF command.s = "speak" /\ TextMissing(params)
    THEN "Text parameter is required for speak command"
    ELSE IF command.s = "speak" /\ TextTooLong(params)
    THEN "Text length cannot exceed 500 characters"
    ELSE ""

----------------------------------------------------------------------------
(* The command switch of controlRobot: the arguments of sendCommandToRobot. *)
(* A variable the switch leaves unassigned is undefined.                    *)

Args(action, direction, speed, duration, extraParams) ==
    [supported |-> TRUE, action |-> action, direction |-> direction,
     speed |-> speed, duration |-> duration, extraParams |-> extraParams]

EmptyObject == [k \in {} |-> Undefined]

\* a default speed kept outside the handler and raised by every invocation
SpeedOrDefaultCounting(params, default) ==
    OrElse(Param(params, "speed"), Num(default + Len(calls)))

\* speed = params.speed || <default>
SpeedOrDefault(params, default) == OrElse(Param(params, "speed"), Num(default))

\* the duration without its default
DurationNoDefault(params) == Param(params, "duration")

\* duration = params.duration || 0
DurationOrDefault(params) == OrElse(Param(params, "duration"), Num(0))

\* the four drive cases and the two turret cases
Drive(action, direction, default, params) ==
    Args(Str(action), Str(direction), SpeedOrDefault(params, default),
         DurationOrDefault(params), EmptyObject)

ActionOnly(action) == Args(Str(action), Undefined, Undefined, Undefined, EmptyObject)

\* extraParams of joystick_control
JoystickParams(params) ==
    [k \in {"l_left", "l_forward", "r_left", "r_forward"} |->
        OrElse(Param(params, k), Num(0))]

\* extraParams of speak as the whole of params
SpeakParamsAll(params) == params

\* extraParams of speak
SpeakParams(params) == [k \in {"text"} |-> Param(params, "text")]

\* extraParams of beep with each field taken only if it is truthy
BeepParamsTruthy(params) ==
    [k \in {k \in {"frequency", "duration"} : Truthy(Param(params, k))} |->
        Param(params, k)]

\* extraParams of beep: each field only if it is !== undefined
BeepParams(params) ==
    [k \in {k \in {"frequency", "duration"} : Param(params, k) # Undefined} |->
        Param(params, k)]

CommandSwitch(command, params) ==
    CASE command.s = "forward" -> Drive("move", "forward", 500, params)
      [] command.s = "backward" -> Drive("move", "backward", 500, params)
      [] command.s = "left" -> Drive("move", "left", 300, params)
      [] command.s = "right" -> Drive("move", "right", 300, params)
      [] command.s = "turret_left" -> Drive("turret", "left", 200, params)
      [] command.s = "turret_right" -> Drive("turret", "right", 200, params)
      [] command.s = "stop" -> ActionOnly("stop")
      [] command.s = "stop_turret" -> ActionOnly("stop_turret")
      [] command.s = "get_status" -> ActionOnly("status")
      [] command.s = "get_help" -> ActionOnly("help")
      [] command.s = "joystick_control" ->
            Args(Str("joystick"), Undefined, Undefined, Undefined, JoystickParams(params))
      [] command.s = "speak" ->
            Args(Str("speak"), Undefined, Undefined, Undefined, SpeakParams(params))
      [] command.s = "battery" -> ActionOnly("battery")
      [] command.s = "beep" ->
            Args(Str("beep"), Undefined, Undefined, Undefined, BeepParams(params))
      [] OTHER -> [supported |-> FALSE, action |-> Undefined, direction |-> Undefined,
                   speed |-> Undefined, duration |-> Undefined,
                   extraParams |-> EmptyObject]

----------------------------------------------------------------------------
(* sendCommandToRobot: the wire record and the message *)

\* a default parameter value (direction = null, ...) replaces undefined
DefaultNull(x) == IF x = Undefined THEN Null ELSE x

\* obj[k] = v
SetField(obj, k, v) == (k :> v) @@ obj

\* Object.assign(target, source)
ObjectAssign(target, source) == source @@ target

\* let command = { action }; ... Object.assign(command, params)
BuildCommand(action, direction0, speed0, duration0, params) ==
    LET direction == DefaultNull(direction0)
        speed == DefaultNull(speed0)
        duration == DefaultNull(duration0)
        c0 == ("action" :> action)
        c1 == IF Truthy(direction) THEN SetField(c0, "direction", direction) ELSE c0
        c2 == IF speed # Null THEN SetField(c1, "speed", speed) ELSE c1
        c3 == IF duration # Null THEN SetField(c2, "duration", duration) ELSE c2
    IN  ObjectAssign(c3, params)

\* JSON.stringify(command): a property whose value is undefined is left out
JSONStringify(obj) ==
    [k \in {f \in DOMAIN obj : obj[f] # Undefined} |-> obj[k]]

\* the message without its terminator
FullMessageNoNewline(command) == [json |-> JSONStringify(command), terminator |-> <<>>]

\* const fullMessage = message + '\n'
FullMessage(command) == [json |-> JSONStringify(command), terminator |-> <<"\n">>]


----------------------------------------------------------------------------
(* auth.js: validateApiKey, getClientId, rateLimitCheck *)

API_KEY == "your-secret-api-key"

\* String.prototype.replace('Bearer ', ''), on the header values of the model
RemoveBearer(h) ==
    CASE h = "Bearer " \o API_KEY -> API_KEY
      [] h = "Bearer wrong-key" -> "wrong-key"
      [] OTHER -> h

\* req.headers['x-api-key'] || req.headers['authorization']?.replace('Bearer ', '')
ApiKeyOf(headers) ==
    OrElse(headers.xApiKey,
           IF headers.authorization = Undefined THEN Undefined
           ELSE Str(RemoveBearer(headers.authorization.s)))

\* validateApiKey without the comparison with API_KEY
validateApiKeyAnyKey(headers) ==
    IF ~Truthy(ApiKeyOf(headers)) THEN "API key is required" ELSE ""

\* "" when validateApiKey returns true, else the message it throws
validateApiKey(headers) ==
    IF ~Truthy(ApiKeyOf(headers)) THEN "API key is required"
    ELSE IF ApiKeyOf(headers) # Str(API_KEY) THEN "Invalid API key"
    ELSE ""

\* the sha256 digest of clientIp + userAgent, kept as the pair it is taken of
getClientId(r) ==
    [ip |-> IF Truthy(r.headers.xForwardedFor) THEN r.headers.xForwardedFor.s
            ELSE r.remoteAddress,
     agent |-> OrElse(r.headers.userAgent, Str("unknown")).s]

\* requestCounts.get(clientId), after the entry was created when missing
RequestsOf(counts, clientId) ==
    IF clientId \in DOMAIN counts THEN counts[clientId] ELSE <<>>

\* the window with its start included
InWindowInclusive(timestamp, t) == timestamp >= t - RATE_LIMIT_WINDOW

\* timestamp > windowStart
InWindow(timestamp, t) == timestamp > t - RATE_LIMIT_WINDOW

\* requests.filter(timestamp => timestamp > windowStart)
RecentRequests(counts, clientId, t) ==
    SelectSeq(RequestsOf(counts, clientId), LAMBDA timestamp : InWindow(timestamp, t))

\* rateLimitCheck throws
RateLimited(counts, clientId, t) ==
    Len(RecentRequests(counts, clientId, t)) >= MAX_REQUESTS_PER_WINDOW

\* rateLimitCheck recording the call before it throws
CountsAfterCheckRecordAll(counts, clientId, t) ==
    (clientId :> Append(RecentRequests(counts, clientId, t), t)) @@ counts

\* requestCounts after rateLimitCheck(clientId) at time t
CountsAfterCheck(counts, clientId, t) ==
    LET created == IF clientId \in DOMAIN counts THEN counts
                   ELSE (clientId :> <<>>) @@ counts
    IN  IF RateLimited(counts, clientId, t) THEN created
        ELSE (clientId :> Append(RecentRequests(counts, clientId, t), t)) @@ created

\* the setTimeout an accepted call schedules
CleanupsAfterCheck(pending, counts, clientId, t) ==
    IF RateLimited(counts, clientId, t) THEN pending
    ELSE pending \cup {[client |-> clientId, due |-> t + RATE_LIMIT_WINDOW]}

\* one call of rateLimitCheck, as the history keeps it
Call(clientId, t, accepted) == [client |-> clientId, time |-> t, accepted |-> accepted]

\* authenticateRequest without its rateLimitCheck
authenticateRequestNoRateLimit(r, counts, t) == validateApiKey(r.headers)

\* "" when authenticateRequest returns, else the message it throws
authenticateRequest(r, counts, t) ==
    IF validateApiKey(r.headers) # "" THEN validateApiKey(r.headers)
    ELSE IF RateLimited(counts, getClientId(r), t)
    THEN "Rate limit exceeded. Please try again later."
    ELSE ""

----------------------------------------------------------------------------
(* The promise of sendCommandToRobot and the continuation of controlRobot *)

NoValue == [kind |-> "none", num |-> 0, chars |-> <<>>]
Pending == [state |-> "pending", value |-> NoValue, reason |-> ""]
Fulfilled(v) == [state |-> "fulfilled", value |-> v, reason |-> ""]
Rejected(message) == [state |-> "rejected", value |-> NoValue, reason |-> message]

\* resolve(..) / reject(..): only the first call settles the promise
Settle(current, new) == IF current.state = "pending" THEN new ELSE current

\* res.status(status).json(body)
Reply(status, body) == [status |-> status, body |-> body]

\* what follows the await once the promise has settled as o
Continuation(o, r, t) ==
    IF o.state = "fulfilled"
    THEN Reply(200, [success |-> TRUE, command |-> r.body.command,
                     result |-> o.value, timestamp |-> t])
    ELSE Reply(500, [success |-> FALSE, error |-> o.reason, timestamp |-> t])

\* a handler calls resolve or reject with `new`: the promise, and the response
\* of the awaiting controlRobot when this call settled it
SettleAndContinue(new) ==
    /\ outcome' = Settle(outcome, new)
    /\ IF outcome.state = "pending"
       THEN /\ responses' = Append(responses, Continuation(new, req, now))
            /\ pc' = "done"
       ELSE UNCHANGED <<responses, pc>>

----------------------------------------------------------------------------
(* controlRobot up to the await: method check, authentication, validation, *)
(* the command switch and the synchronous part of sendCommandToRobot       *)

Respond(status, body) ==
    /\ responses' = Append(responses, Reply(status, body))
    /\ pc' = "done"

\* new net.Socket(); client.setTimeout(..); client.connect(..)
StartSession(args) ==
    /\ wireCommand' = BuildCommand(args.action, args.direction, args.speed,
                               args.duration, args.extraParams)
    /\ sock' = "connecting"
    /\ lastActive' = now
    /\ startedAt' = now
    /\ log' = Append(log, "connect")
    /\ pc' = "awaiting"
    /\ UNCHANGED <<responses, outcome, buffer, written, connectedAt,
                   received, decoded, peerEnded>>

ControlRobot ==
    /\ pc = "pending"
    /\ LET authError == authenticateRequest(req, requestCounts, now)
           keyOk == req.method = "POST" /\ validateApiKey(req.headers) = ""
           body == req.body
           invalid == validateCommand(body.command, body.params)
           args == CommandSwitch(body.command, body.params)
       IN
       /\ IF keyOk
          THEN /\ requestCounts' = CountsAfterCheck(requestCounts, getClientId(req), now)
               /\ cleanups' = CleanupsAfterCheck(cleanups, requestCounts,
                                                 getClientId(req), now)
               /\ calls' = Append(calls, Call(getClientId(req), now,
                                    ~RateLimited(requestCounts, getClientId(req), now)))
          ELSE UNCHANGED <<requestCounts, cleanups, calls>>
       /\ IF req.method # "POST"
          THEN Respond(405, [error |-> "Method not allowed"]) /\ UNCHANGED <<wireCommand, sessionVars>>
          ELSE IF authError # ""
          THEN Respond(401, [error |-> authError]) /\ UNCHANGED <<wireCommand, sessionVars>>
          ELSE IF ~Truthy(body.command)
          THEN Respond(400, [error |-> "Command is required"]) /\ UNCHANGED <<wireCommand, sessionVars>>
          ELSE IF invalid # ""
          THEN Respond(500, [success |-> FALSE, error |-> invalid, timestamp |-> now])
               /\ UNCHANGED <<wireCommand, sessionVars>>
          ELSE IF ~args.supported
          THEN Respond(400, [error |-> "Unsupported command: " \o body.command.s])
               /\ UNCHANGED <<wireCommand, sessionVars>>
          ELSE StartSession(args)
    /\ UNCHANGED <<req, now, parked>>


----------------------------------------------------------------------------
(* Strings of the byte stream: sequences of characters.  "W" stands for the *)
(* word Welcome and "S" for the words Send JSON; "1" is a digit and the     *)
(* quote delimits a JSON string.                                            *)

Alphabet == {"\n", " ", "1", "W", "S", "\""}

WhiteSpace == {"\n", " "}

\* String.prototype.includes, for a one-character pattern
Includes(str, ch) == \E i \in 1..Len(str) : str[i] = ch

\* p is the start of str
IsPrefix(p, str) == Len(p) <= Len(str) /\ SubSeq(str, 1, Len(p)) = p

\* String.prototype.split('\n')
RECURSIVE Split(_)
Split(str) ==
    IF ~Includes(str, "\n") THEN <<str>>
    ELSE LET i == CHOOSE j \in 1..Len(str) :
                     str[j] = "\n" /\ \A k \in 1..(j - 1) : str[k] # "\n"
         IN  <<SubSeq(str, 1, i - 1)>> \o Split(SubSeq(str, i + 1, Len(str)))

\* String.prototype.trim
RECURSIVE Trim(_)
Trim(str) ==
    IF str = <<>> THEN str
    ELSE IF str[1] \in WhiteSpace THEN Trim(Tail(str))
    ELSE IF str[Len(str)] \in WhiteSpace THEN Trim(SubSeq(str, 1, Len(str) - 1))
    ELSE str

\* message.includes('Welcome') || message.includes('Send JSON')
IsGreeting(message) == Includes(message, "W") \/ Includes(message, "S")

\* the value of a run of digits 1
RECURSIVE DigitsValue(_)
DigitsValue(str) ==
    IF str = <<>> THEN 0 ELSE 10 * DigitsValue(SubSeq(str, 1, Len(str) - 1)) + 1

\* JSON.parse on this alphabet: white space around one value, which is a
\* number (digits) or a string (quote, characters other than quote, quote);
\* anything else throws
JSONParse(message) ==
    LET body == Trim(message)
        n == Len(body)
    IN  IF n >= 1 /\ \A i \in 1..n : body[i] = "1"
        THEN [ok |-> TRUE,
              value |-> [kind |-> "number", num |-> DigitsValue(body), chars |-> <<>>]]
        ELSE IF n >= 2 /\ body[1] = "\"" /\ body[n] = "\""
                /\ \A i \in 2..(n - 1) : body[i] # "\""
        THEN [ok |-> TRUE,
              value |-> [kind |-> "string", num |-> 0, chars |-> SubSeq(body, 2, n - 1)]]
        ELSE [ok |-> FALSE, value |-> NoValue]

\* the text response without the trim
TextResponseUntrimmed(message) == [kind |-> "text", num |-> 0, chars |-> message]

\* { success: true, response: message.trim() }
TextResponse(message) == [kind |-> "text", num |-> 0, chars |-> Trim(message)]

\* the loop with JSON.parse tried before the greeting test
RECURSIVE ProcessMessagesParseFirst(_, _)
ProcessMessagesParseFirst(messages, i) ==
    IF i > Len(messages) THEN NoValue
    ELSE IF Trim(messages[i]) = <<>> THEN ProcessMessagesParseFirst(messages, i + 1)
    ELSE IF JSONParse(messages[i]).ok THEN JSONParse(messages[i]).value
    ELSE IF IsGreeting(messages[i]) THEN ProcessMessagesParseFirst(messages, i + 1)
    ELSE TextResponse(messages[i])

\* the loop without its return: the last message that resolves wins
RECURSIVE ProcessMessagesLast(_, _)
ProcessMessagesLast(messages, i) ==
    IF i > Len(messages) THEN NoValue
    ELSE LET later == ProcessMessagesLast(messages, i + 1)
         IN  IF later # NoValue THEN later
             ELSE IF Trim(messages[i]) = <<>> \/ IsGreeting(messages[i]) THEN NoValue
             ELSE IF JSONParse(messages[i]).ok THEN JSONParse(messages[i]).value
             ELSE TextResponse(messages[i])

\* the for loop over the complete messages: the value the handler resolves
\* with, NoValue when the loop ends without resolving
RECURSIVE ProcessMessages(_, _)
ProcessMessages(messages, i) ==
    IF i > Len(messages) THEN NoValue
    ELSE IF Trim(messages[i]) = <<>> THEN ProcessMessages(messages, i + 1)
    ELSE IF IsGreeting(messages[i]) THEN ProcessMessages(messages, i + 1)
    ELSE IF JSONParse(messages[i]).ok THEN JSONParse(messages[i]).value
    ELSE IF Len(Trim(messages[i])) > 0 THEN TextResponse(messages[i])
    ELSE ProcessMessages(messages, i + 1)

\* the split of the chunk alone, the text kept from earlier chunks dropped
MessagesOfChunk(buf, chunk) == Split(chunk)

\* the loop over every part of the split, the text after the last terminator
\* included
CompleteWithLast(messages) == messages

\* buffer += chunk; const messages = buffer.split('\n')
MessagesOf(buf, chunk) == Split(buf \o chunk)

\* buffer = messages.pop() || ''
Remainder(messages) == messages[Len(messages)]

\* messages after the pop
Complete(messages) == SubSeq(messages, 1, Len(messages) - 1)

\* the two bytes of a character outside ASCII (U+00E9 in UTF-8), the
\* character itself, and U+FFFD, which the decoder puts for a byte sequence
\* that is not a complete character
LeadByte == "c3"
ContinuationByte == "a9"
TwoByteChar == "e9"
ReplacementChar == "fffd"

\* data.toString(): the bytes of one chunk decoded as UTF-8, on its own
RECURSIVE toString(_)
toString(data) ==
    IF data = <<>> THEN <<>>
    ELSE IF data[1] = LeadByte /\ Len(data) >= 2 /\ data[2] = ContinuationByte
    THEN <<TwoByteChar>> \o toString(SubSeq(data, 3, Len(data)))
    ELSE IF data[1] \in {LeadByte, ContinuationByte}
    THEN <<ReplacementChar>> \o toString(Tail(data))
    ELSE <<data[1]>> \o toString(Tail(data))

RECURSIVE SeqsOver(_, _)
SeqsOver(symbols, k) ==
    IF k = 0 THEN {<<>>}
    ELSE {Append(str, ch) : str \in SeqsOver(symbols, k - 1), ch \in symbols}

SeqsOfLength(k) == SeqsOver(Alphabet, k)

\* the chunks a data event may carry
Chunks == UNION {SeqsOfLength(k) : k \in 1..MaxChunk}

----------------------------------------------------------------------------
(* The socket events of one session *)

Live == sock \in {"connecting", "connected"}

\* the idle timer set by client.setTimeout(CONNECTION_TIMEOUT)
TimerDue == lastActive + CONNECTION_TIMEOUT

\* the connect callback writing the message a second time
ConnectWriteTwice ==
    /\ sock = "connecting"
    /\ sock' = "connected"
    /\ written' = written \o <<FullMessage(wireCommand), FullMessage(wireCommand)>>
    /\ buffer' = <<>>
    /\ lastActive' = now
    /\ connectedAt' = now
    /\ log' = log \o <<"write", "write">>
    /\ UNCHANGED <<req, calls, parked, pc, responses, requestCounts, cleanups, now,
                   wireCommand, outcome, startedAt, received, decoded, peerEnded>>

\* the callback of client.connect
Connect ==
    /\ sock = "connecting"
    /\ sock' = "connected"
    /\ written' = Append(written, FullMessage(wireCommand))
    /\ buffer' = <<>>
    /\ lastActive' = now
    /\ connectedAt' = now
    /\ log' = Append(log, "write")
    /\ UNCHANGED <<req, calls, parked, pc, responses, requestCounts, cleanups, now, wireCommand,
                   outcome, startedAt, received, decoded, peerEnded>>

\* the data handler resolving without client.destroy()
DataNoDestroy(chunk) ==
    /\ sock = "connected"
    /\ Len(received) + Len(chunk) <= MaxStream
    /\ LET messages == MessagesOf(buffer, toString(chunk))
           result == ProcessMessages(Complete(messages), 1)
       IN  /\ buffer' = Remainder(messages)
           /\ IF result # NoValue
              THEN /\ log' = Append(log, "resolve")
                   /\ SettleAndContinue(Fulfilled(result))
              ELSE UNCHANGED <<log, outcome, responses, pc>>
    /\ received' = received \o chunk
    /\ decoded' = decoded \o toString(chunk)
    /\ lastActive' = now
    /\ UNCHANGED <<req, calls, parked, requestCounts, cleanups, now, wireCommand, written, sock,
                   startedAt, connectedAt, peerEnded>>

\* client.on('data', ..): the handler, on a socket that is open
OnData(chunk) ==
    /\ sock = "connected"
    /\ LET messages == MessagesOf(buffer, toString(chunk))
           result == ProcessMessages(Complete(messages), 1)
       IN  /\ buffer' = Remainder(messages)
           /\ IF result # NoValue
              THEN /\ sock' = "destroyed"
                   /\ log' = log \o <<"destroy", "resolve">>
                   /\ SettleAndContinue(Fulfilled(result))
              ELSE UNCHANGED <<sock, log, outcome, responses, pc>>
    /\ received' = received \o chunk
    /\ decoded' = decoded \o toString(chunk)
    /\ lastActive' = now
    /\ UNCHANGED <<req, calls, parked, requestCounts, cleanups, now, wireCommand, written,
                   startedAt, connectedAt, peerEnded>>

\* a 'data' event of a peer that sends at most MaxStream bytes
Data(chunk) ==
    /\ Len(received) + Len(chunk) <= MaxStream
    /\ OnData(chunk)

\* the timeout handler without client.destroy()
TimeoutNoDestroy ==
    /\ Live
    /\ now = TimerDue
    /\ outcome.state = "pending"
    /\ log' = Append(log, "reject")
    /\ SettleAndContinue(Rejected("Connection timeout"))
    /\ UNCHANGED <<req, calls, parked, requestCounts, cleanups, now, wireCommand, sock, buffer, written,
                   lastActive, startedAt, connectedAt, received, decoded, peerEnded>>

\* the timeout handler without reject(..)
TimeoutNoReject ==
    /\ Live
    /\ now = TimerDue
    /\ sock' = "destroyed"
    /\ log' = Append(log, "destroy")
    /\ UNCHANGED <<req, calls, parked, pc, responses, requestCounts, cleanups, now, wireCommand,
                   outcome, buffer, written, lastActive, startedAt, connectedAt,
                   received, decoded, peerEnded>>

\* client.on('timeout', ..)
Timeout ==
    /\ Live
    /\ now = TimerDue
    /\ sock' = "destroyed"
    /\ log' = log \o <<"destroy", "reject">>
    /\ SettleAndContinue(Rejected("Connection timeout"))
    /\ UNCHANGED <<req, calls, parked, requestCounts, cleanups, now, wireCommand, buffer, written,
                   lastActive, startedAt, connectedAt, received, decoded, peerEnded>>

\* the error.message of a failed connect and of a failed read
ErrorMessages == IF sock = "connecting" THEN {"connect ECONNREFUSED"}
                 ELSE {"read ECONNRESET"}

\* client.on('error', ..): the runtime has destroyed the socket with the error
\* before it emits the event
SocketError(message) ==
    /\ Live
    /\ sock' = "destroyed"
    /\ log' = log \o <<"error", "reject">>
    /\ SettleAndContinue(Rejected("Connection error: " \o message))
    /\ UNCHANGED <<req, calls, parked, requestCounts, cleanups, now, wireCommand, buffer, written,
                   lastActive, startedAt, connectedAt, received, decoded, peerEnded>>

\* the peer ends the connection: no 'end' listener, the runtime ends and
\* destroys the socket, which clears its idle timer
PeerEnd ==
    /\ sock = "connected"
    /\ sock' = "destroyed"
    /\ peerEnded' = TRUE
    /\ log' = Append(log, "end")
    /\ UNCHANGED <<req, calls, parked, pc, responses, requestCounts, cleanups, now, wireCommand,
                   outcome, buffer, written, lastActive, startedAt, connectedAt,
                   received, decoded>>

\* client.on('close', ..): logs
Close ==
    /\ sock = "destroyed"
    /\ sock' = "closed"
    /\ log' = Append(log, "close")
    /\ UNCHANGED <<req, calls, parked, pc, responses, requestCounts, cleanups, now, wireCommand,
                   outcome, buffer, written, lastActive, startedAt, connectedAt,
                   received, decoded, peerEnded>>

----------------------------------------------------------------------------
(* Time and the cleanup timers of rateLimitCheck *)

\* the callback of the setTimeout in rateLimitCheck
CleanedCountsKeepEmpty(counts, clientId, t) ==
    IF clientId \notin DOMAIN counts THEN counts
    ELSE (clientId :> RecentRequests(counts, clientId, t)) @@ counts

\* the callback of the setTimeout in rateLimitCheck
CleanedCounts(counts, clientId, t) ==
    IF clientId \notin DOMAIN counts THEN counts
    ELSE IF RecentRequests(counts, clientId, t) = <<>>
    THEN [c \in DOMAIN counts \ {clientId} |-> counts[c]]
    ELSE (clientId :> RecentRequests(counts, clientId, t)) @@ counts

Cleanup(timer) ==
    /\ timer \in cleanups
    /\ timer.due <= now
    /\ requestCounts' = CleanedCounts(requestCounts, timer.client, now)
    /\ cleanups' = cleanups \ {timer}
    /\ UNCHANGED <<req, calls, parked, pc, responses, now, wireCommand, sessionVars>>

Deadlines == (IF Live THEN {TimerDue} ELSE {}) \cup {timer.due : timer \in cleanups}

Earliest(set) == CHOOSE d \in set : \A e \in set : d <= e

\* the clock advances, never past a timer that is due nor while a callback
\* is ready to run (the handler of the request, the 'close' event of a
\* destroyed socket); once no socket is live it jumps to the next cleanup
Tick ==
    /\ pc # "pending"
    /\ sock # "destroyed"
    /\ Deadlines # {}
    /\ now < Earliest(Deadlines)
    /\ IF Live
       THEN now' = IF now + TickMs < Earliest(Deadlines) THEN now + TickMs
                  ELSE Earliest(Deadlines)
       ELSE now' = Earliest(Deadlines)
    /\ UNCHANGED <<req, calls, parked, pc, responses, requestCounts, cleanups, wireCommand, sessionVars>>


----------------------------------------------------------------------------
(* Requests *)

NoParams == [k \in ParamNames |-> Undefined]

KeyHeaders == [xApiKey |-> Str(API_KEY), authorization |-> Undefined,
               xForwardedFor |-> Undefined, userAgent |-> Str("curl")]

Request(method, headers, commandValue, params) ==
    [method |-> method, headers |-> headers, remoteAddress |-> "10.0.0.1",
     body |-> [command |-> commandValue, params |-> params]]

\* the requests of the full pipeline: one that opens a session, and one for
\* each way the handler answers without one
SessionRequests ==
    { Request("POST", KeyHeaders, Str("forward"), NoParams),
      Request("POST", [KeyHeaders EXCEPT !.xApiKey = Undefined,
                                         !.authorization = Str("Bearer " \o API_KEY)],
              Str("speak"), [NoParams EXCEPT !["text"] = Str(Rep(MAX_TEXT_LENGTH + 1))]),
      Request("GET", KeyHeaders, Str("forward"), NoParams),
      Request("POST", [KeyHeaders EXCEPT !.xApiKey = Undefined], Str("forward"), NoParams),
      Request("POST", [KeyHeaders EXCEPT !.xApiKey = Str("wrong-key")],
              Str("forward"), NoParams),
      Request("POST", [KeyHeaders EXCEPT !.xApiKey = Undefined,
                                         !.authorization = Str("Bearer wrong-key")],
              Str("stop"), NoParams),
      Request("POST", [KeyHeaders EXCEPT !.xApiKey = Str("wrong-key"),
                                         !.authorization = Str("Bearer " \o API_KEY)],
              Str("forward"), NoParams),
      Request("POST", KeyHeaders, Undefined, NoParams),
      Request("POST", KeyHeaders, Str("dance"), NoParams),
      Request("POST", KeyHeaders, Str("left"), [NoParams EXCEPT !["speed"] = Num(MAX_SPEED + 1)]),
      Request("POST", KeyHeaders, Str("speak"), NoParams) }

\* the parameter values the translation is applied to
SpeedValues == {Undefined, Num(-1), Num(0), Num(1), Num(MAX_SPEED), Num(MAX_SPEED + 1)}
DurationValues == {Undefined, Num(-1), Num(0), Num(MAX_DURATION), Num(MAX_DURATION + 1)}
TextValues == {Undefined, Num(7), Str(""), Str(Rep(1)), Str(Rep(MAX_TEXT_LENGTH)),
               Str(Rep(MAX_TEXT_LENGTH + 1))}
FrequencyValues == {Undefined, Num(0), Num(440)}
AxisValues == {Undefined, Num(0), Num(50)}
NoteValues == {Undefined, Str("x")}

CommandValues == {Str(c) : c \in validCommands} \cup {Str("dance"), Undefined}

TranslateParams ==
    { [k \in ParamNames |->
          CASE k = "speed" -> speed
            [] k = "duration" -> duration
            [] k = "text" -> text
            [] k = "frequency" -> frequency
            [] k = "l_left" -> axis
            [] k \in {"note", "action"} -> note
            [] OTHER -> other] :
      speed \in SpeedValues, duration \in DurationValues, text \in TextValues,
      frequency \in FrequencyValues, axis \in AxisValues, other \in AxisValues,
      note \in NoteValues }

TranslateRequests ==
    { Request("POST", KeyHeaders, c, params) :
          c \in CommandValues, params \in TranslateParams }

----------------------------------------------------------------------------
(* Specifications *)

\* one client that has used up its window: 100 accepted calls at time 0
FullCounts(r) == (getClientId(r) :> [i \in 1..MAX_REQUESTS_PER_WINDOW |-> 0])

FullCleanups(r) == {[client |-> getClientId(r), due |-> RATE_LIMIT_WINDOW]}

InitSession ==
    /\ pc = "pending"
    /\ responses = <<>>
    /\ now = 0
    /\ wireCommand = EmptyObject
    /\ sock = "none"
    /\ outcome = Pending
    /\ buffer = <<>>
    /\ written = <<>>
    /\ lastActive = 0
    /\ startedAt = 0
    /\ connectedAt = -1
    /\ received = <<>>
    /\ decoded = <<>>
    /\ peerEnded = FALSE
    /\ log = <<>>

\* the calls that filled the window
FullCalls(r) == [i \in 1..MAX_REQUESTS_PER_WINDOW |-> Call(getClientId(r), 0, TRUE)]

\* no second invocation is in flight
NoInvocation == [pc |-> "none"]

Init ==
    /\ req \in SessionRequests
    /\ \/ requestCounts = [c \in {} |-> <<>>] /\ cleanups = {} /\ calls = <<>>
       \/ /\ requestCounts = FullCounts(req)
          /\ cleanups = FullCleanups(req)
          /\ calls = FullCalls(req)
    /\ parked = NoInvocation
    /\ InitSession

Next ==
    \/ ControlRobot
    \/ Connect
    \/ \E chunk \in Chunks : Data(chunk)
    \/ Timeout
    \/ \E message \in ErrorMessages : SocketError(message)
    \/ PeerEnd
    \/ Close
    \/ \E timer \in cleanups : Cleanup(timer)
    \/ Tick

Spec == Init /\ [][Next]_vars

\* the event loop runs every callback that is due, and time passes
FairSpec ==
    /\ Spec
    /\ WF_vars(ControlRobot)
    /\ WF_vars(Timeout)
    /\ WF_vars(Close)
    /\ WF_vars(\E timer \in cleanups : Cleanup(timer))
    /\ WF_vars(Tick)

\* the handler alone, up to the await, on every request of TranslateRequests
InitTranslate ==
    /\ req \in TranslateRequests
    /\ requestCounts = [c \in {} |-> <<>>]
    /\ cleanups = {}
    /\ calls = <<>>
    /\ parked = NoInvocation
    /\ InitSession

SpecTranslate == InitTranslate /\ [][ControlRobot]_vars

----------------------------------------------------------------------------
(* The rate-limit specification: invocations of two clients, one after the *)
(* other, that pass the key check and carry no command, so that each calls *)
(* rateLimitCheck and none opens a session                                 *)

MaxCalls == 3

\* milliseconds between one response and the arrival of the next request
\* (the first request arrives in the millisecond of the calls before it)
Gaps == {1, RATE_LIMIT_WINDOW - 1, RATE_LIMIT_WINDOW}

\* accepted calls of the first client at time 0, before the first invocation
PriorCalls == {MAX_REQUESTS_PER_WINDOW - 1, MAX_REQUESTS_PER_WINDOW}

RateRequests ==
    { Request("POST", KeyHeaders, Undefined, NoParams),
      Request("POST", [KeyHeaders EXCEPT !.xForwardedFor = Str("10.0.0.2")],
              Undefined, NoParams) }

FirstClient == getClientId(Request("POST", KeyHeaders, Undefined, NoParams))

\* the framework invokes the handler for the next request, d ms later
Arrive(r, d) ==
    /\ pc = "done"
    /\ sock = "none"
    /\ Len(calls) < MAX_REQUESTS_PER_WINDOW + MaxCalls
    /\ req' = r
    /\ pc' = "pending"
    /\ responses' = <<>>
    /\ now' = now + d
    /\ UNCHANGED <<requestCounts, cleanups, calls, parked, wireCommand, sessionVars>>

InitRate ==
    /\ req \in RateRequests
    /\ \E n \in PriorCalls :
          /\ requestCounts = (FirstClient :> [i \in 1..n |-> 0])
          /\ calls = [i \in 1..n |-> Call(FirstClient, 0, TRUE)]
    /\ cleanups = {[client |-> FirstClient, due |-> RATE_LIMIT_WINDOW]}
    /\ parked = NoInvocation
    /\ InitSession

NextRate ==
    \/ ControlRobot
    \/ \E r \in RateRequests, d \in Gaps : Arrive(r, d)
    \/ \E timer \in cleanups : Cleanup(timer)

SpecRate == InitRate /\ [][NextRate]_vars

\* the same invocations with the clock also running on to the next cleanup
\* timer when no request arrives: a client may stop calling
IdleGaps == {1, RATE_LIMIT_WINDOW}

NextIdle ==
    \/ ControlRobot
    \/ \E r \in RateRequests, d \in IdleGaps : Arrive(r, d)
    \/ \E timer \in cleanups : Cleanup(timer)
    \/ Tick

SpecIdle == InitRate /\ [][NextIdle]_vars

----------------------------------------------------------------------------
(* The specification of two invocations in flight: the callbacks of one run *)
(* while the other is parked, and the event loop may turn to the other      *)
(* between any two callbacks.  What an invocation owns is what its call of  *)
(* the handler and of sendCommandToRobot declares: req and res, the socket, *)
(* command, the promise and the buffer of the connect callback.  The map of *)
(* the rate limiter and the clock belong to the process.                    *)

\* the line the robot answers a request with: 1 to forward, 11 to stop
PairLine(r) ==
    IF r.body.command = Str("forward") THEN <<"1", "\n">> ELSE <<"1", "1", "\n">>

\* the chunks of the two peers
PairChunks == {<<"1">>, <<"\n">>, <<"1", "\n">>, <<"1", "1">>}

\* the invocation whose callbacks run
Current ==
    [req |-> req, pc |-> pc, responses |-> responses,
     wireCommand |-> wireCommand, sock |-> sock, outcome |-> outcome,
     buffer |-> buffer, written |-> written, lastActive |-> lastActive,
     startedAt |-> startedAt, connectedAt |-> connectedAt,
     received |-> received, decoded |-> decoded, peerEnded |-> peerEnded,
     log |-> log]

\* the state of an invocation before its handler runs
Invoked(r) ==
    [req |-> r, pc |-> "pending", responses |-> <<>>, wireCommand |-> EmptyObject,
     sock |-> "none", outcome |-> Pending, buffer |-> <<>>, written |-> <<>>,
     lastActive |-> 0, startedAt |-> 0, connectedAt |-> -1, received |-> <<>>,
     decoded |-> <<>>, peerEnded |-> FALSE, log |-> <<>>]

\* the switch with one buffer for the process: it stays where it is
SwitchSharedBuffer ==
    /\ parked.pc # "none"
    /\ parked' = [Current EXCEPT !.buffer = parked.buffer]
    /\ req' = parked.req
    /\ pc' = parked.pc
    /\ responses' = parked.responses
    /\ wireCommand' = parked.wireCommand
    /\ sock' = parked.sock
    /\ outcome' = parked.outcome
    /\ written' = parked.written
    /\ lastActive' = parked.lastActive
    /\ startedAt' = parked.startedAt
    /\ connectedAt' = parked.connectedAt
    /\ received' = parked.received
    /\ decoded' = parked.decoded
    /\ peerEnded' = parked.peerEnded
    /\ log' = parked.log
    /\ buffer' = buffer
    /\ UNCHANGED <<requestCounts, cleanups, now, calls>>

\* the event loop turns to the callbacks of the other invocation
Switch ==
    /\ parked.pc # "none"
    /\ parked' = Current
    /\ req' = parked.req
    /\ pc' = parked.pc
    /\ responses' = parked.responses
    /\ wireCommand' = parked.wireCommand
    /\ sock' = parked.sock
    /\ outcome' = parked.outcome
    /\ buffer' = parked.buffer
    /\ written' = parked.written
    /\ lastActive' = parked.lastActive
    /\ startedAt' = parked.startedAt
    /\ connectedAt' = parked.connectedAt
    /\ received' = parked.received
    /\ decoded' = parked.decoded
    /\ peerEnded' = parked.peerEnded
    /\ log' = parked.log
    /\ UNCHANGED <<requestCounts, cleanups, now, calls>>

\* a 'data' event of the invocation whose callbacks run
DeliverPair ==
    \E chunk \in PairChunks :
        /\ IsPrefix(received \o chunk, PairLine(req))
        /\ OnData(chunk)

\* the idle timers of the two sockets
PairDeadlines ==
    (IF Live THEN {TimerDue} ELSE {})
    \cup (IF parked.sock \in {"connecting", "connected"}
          THEN {parked.lastActive + CONNECTION_TIMEOUT} ELSE {})

\* the clock advances to the next timeout of a socket
TickPair ==
    /\ pc # "pending"
    /\ sock # "destroyed"
    /\ PairDeadlines # {}
    /\ now < Earliest(PairDeadlines)
    /\ now' = Earliest(PairDeadlines)
    /\ UNCHANGED <<req, calls, parked, pc, responses, requestCounts, cleanups,
                   wireCommand, sessionVars>>

InitPair ==
    /\ req = Request("POST", KeyHeaders, Str("forward"), NoParams)
    /\ parked = Invoked(Request("POST", KeyHeaders, Str("stop"), NoParams))
    /\ requestCounts = [c \in {} |-> <<>>]
    /\ cleanups = {}
    /\ calls = <<>>
    /\ InitSession

NextPair ==
    \/ ControlRobot
    \/ Connect
    \/ DeliverPair
    \/ Timeout
    \/ \E message \in ErrorMessages : SocketError(message)
    \/ PeerEnd
    \/ Close
    \/ Switch
    \/ TickPair

SpecPair == InitPair /\ [][NextPair]_vars

----------------------------------------------------------------------------
(* The specification of invocations that follow each other: the handler    *)
(* runs again, for any request, while the session of the invocation before *)
(* is open or after it has ended; an earlier invocation is kept in parked  *)
(* to compare with                                                         *)

MaxInvocations == 3

RepeatRequests ==
    { Request("POST", KeyHeaders, Str("forward"), NoParams),
      Request("POST", KeyHeaders, Str("forward"), [NoParams EXCEPT !["speed"] = Num(100)]),
      Request("POST", KeyHeaders, Str("left"),
              [NoParams EXCEPT !["speed"] = Num(MAX_SPEED + 1)]),
      Request("POST", KeyHeaders, Str("beep"), [NoParams EXCEPT !["frequency"] = Num(440)]),
      Request("POST", KeyHeaders, Str("stop"), NoParams),
      Request("POST", KeyHeaders, Str("dance"), NoParams) }

\* the framework invokes the handler for request r; the invocation before,
\* or the one already kept, stays in parked
Invoke(r) ==
    /\ pc # "pending"
    /\ Len(calls) < MaxInvocations
    /\ parked' \in {Current} \cup (IF parked.pc = "none" THEN {} ELSE {parked})
    /\ req' = Invoked(r).req
    /\ pc' = Invoked(r).pc
    /\ responses' = Invoked(r).responses
    /\ wireCommand' = Invoked(r).wireCommand
    /\ sock' = Invoked(r).sock
    /\ outcome' = Invoked(r).outcome
    /\ buffer' = Invoked(r).buffer
    /\ written' = Invoked(r).written
    /\ lastActive' = Invoked(r).lastActive
    /\ startedAt' = Invoked(r).startedAt
    /\ connectedAt' = Invoked(r).connectedAt
    /\ received' = Invoked(r).received
    /\ decoded' = Invoked(r).decoded
    /\ peerEnded' = Invoked(r).peerEnded
    /\ log' = Invoked(r).log
    /\ UNCHANGED <<requestCounts, cleanups, now, calls>>

InitRepeat ==
    /\ req \in RepeatRequests
    /\ requestCounts = [c \in {} |-> <<>>]
    /\ cleanups = {}
    /\ calls = <<>>
    /\ parked = NoInvocation
    /\ InitSession

NextRepeat ==
    \/ ControlRobot
    \/ Connect
    \/ \E message \in ErrorMessages : SocketError(message)
    \/ Close
    \/ \E r \in RepeatRequests : Invoke(r)

SpecRepeat == InitRepeat /\ [][NextRepeat]_vars

----------------------------------------------------------------------------
(* The framing specification: one session whose peer sends up to MaxLines *)
(* lines, cut into data events at any byte                                *)

MaxLines == 3

\* the lines of the peer, without their terminator: empty, white space, the
\* two greetings, a greeting that is a JSON string, JSON numbers, text that
\* is not JSON, and a JSON string and a text with a two-byte character
PeerLines ==
    { <<>>, <<" ">>, <<"W">>, <<"S">>, <<"\"", "W", "\"">>,
      <<"1">>, <<" ", "1", "1">>, <<"\"">>, <<" ", "\"", " ">>,
      <<"\"", LeadByte, ContinuationByte, "\"">>, <<LeadByte, ContinuationByte>> }

\* the non-empty prefixes of str
Prefixes(str) == {SubSeq(str, 1, k) : k \in 1..Len(str)}

\* the lines the peer has terminated, and the bytes of the line it is in
LinesSent(bytes) == Len(Split(bytes)) - 1
Unfinished(bytes) == Remainder(Split(bytes))

\* the ways the peer may finish the line it is in
LineEndings(bytes) ==
    { SubSeq(l, Len(Unfinished(bytes)) + 1, Len(l)) \o <<"\n">> :
        l \in {l \in PeerLines : IsPrefix(Unfinished(bytes), l)} }

\* the next data event: bytes up to the end of the line the peer is in, and
\* possibly into the line after it
PeerChunks(bytes) ==
    IF LinesSent(bytes) >= MaxLines THEN {}
    ELSE UNION {Prefixes(e) : e \in LineEndings(bytes)}
         \cup (IF LinesSent(bytes) + 1 >= MaxLines THEN {}
               ELSE { e \o p : e \in LineEndings(bytes),
                               p \in UNION {Prefixes(l \o <<"\n">>) : l \in PeerLines} })

\* a 'data' event of this peer
Deliver == \E chunk \in PeerChunks(received) : OnData(chunk)

InitFraming ==
    /\ req = Request("POST", KeyHeaders, Str("forward"), NoParams)
    /\ requestCounts = [c \in {} |-> <<>>]
    /\ cleanups = {}
    /\ calls = <<>>
    /\ parked = NoInvocation
    /\ InitSession

NextFraming == ControlRobot \/ Connect \/ Deliver \/ PeerEnd \/ Close

SpecFraming == InitFraming /\ [][NextFraming]_vars


----------------------------------------------------------------------------
(* Properties of the session *)

\* the latest rateLimitCheck call: the one of this invocation, once its
\* handler has run with a valid key
LastCall == calls[Len(calls)]

Settled == outcome.state # "pending"

Logged(event) == \E i \in 1..Len(log) : log[i] = event

\* C1: in every interleaving of the socket events the session reaches at most
\* one outcome: once the promise is settled its value never changes, no
\* further chunk reaches the data handler (received and buffer stay as they
\* are) and no further response is sent.
C1_OutcomeSetOnce ==
    [][Settled => /\ outcome' = outcome
                  /\ received' = received
                  /\ buffer' = buffer
                  /\ responses' = responses]_vars

\* a settled session that handled a later socket event (its 'close')
C1_Witness == outcome.state = "fulfilled" /\ sock = "closed" /\ Len(responses) = 1

\* C2: when the peer closes the connection before the session has an outcome,
\* the session settles with a failure (ConnectionClosedEarly): it is rejected
\* by the time the socket has closed.
C2_PeerCloseRejects ==
    (peerEnded /\ sock = "closed") => outcome.state = "rejected"

\* C3: every invocation sends exactly one HTTP response whatever the peer does:
\* never more than one, and one has been sent once the session's socket has
\* closed, after which no callback of the invocation is left to run.
C3_ExactlyOneResponse ==
    /\ Len(responses) <= 1
    /\ sock = "closed" => Len(responses) = 1

\* C4: whenever the session has an outcome, or the peer has closed, the socket
\* is destroyed: no state has the outcome set and the socket still open.
C4_SettledSocketDestroyed ==
    (Settled \/ peerEnded) => sock \in {"destroyed", "closed"}

\* the outcome set by the error handler, with the socket destroyed
C4_Witness ==
    outcome.state = "rejected" /\ Logged("error") /\ sock = "destroyed"

TimedOut == outcome = Rejected("Connection timeout")

\* the peer has sent data, closed, or the socket has raised an error
PeerActed == received # <<>> \/ peerEnded \/ Logged("error")

\* C5: a connected session whose peer sends nothing, raises no error and does
\* not close ends in the timeout: the handler destroys the socket and then
\* rejects with 'Connection timeout'; a session never resolves without data.
C5_SilentPeerTimesOut ==
    /\ [](TimedOut =>
            /\ sock \in {"destroyed", "closed"}
            /\ \E i \in 1..(Len(log) - 1) : log[i] = "destroy" /\ log[i + 1] = "reject")
    /\ [](outcome.state = "fulfilled" => received # <<>>)
    /\ (sock = "connected" /\ ~PeerActed) ~> (PeerActed \/ TimedOut)

\* a connected session that timed out without any peer event
C5_Witness ==
    TimedOut /\ ~PeerActed /\ Len(written) = 1 /\ now = connectedAt + CONNECTION_TIMEOUT

\* C6: the timeout is not postponed by inbound data: a connected session that
\* is still live has been connected for at most one timeout period.
C6_TimeoutNotPostponed ==
    (sock = "connected") => now <= connectedAt + CONNECTION_TIMEOUT


\* how many times the session did `event`
Count(event) == Cardinality({i \in 1..Len(log) : log[i] = event})

\* C17: an invocation makes at most one connection attempt and writes at most
\* one message; once its socket is destroyed, by a timeout, an error, the
\* peer's close or a response, it is never reopened and nothing more is
\* written.
C17_NoRetry ==
    /\ [](Count("connect") <= 1 /\ Count("write") <= 1 /\ Len(written) <= 1)
    /\ [][(sock \in {"destroyed", "closed"}) =>
            /\ sock' \in {"destroyed", "closed"}
            /\ Count("connect")' = Count("connect")
            /\ written' = written]_vars

\* a session that wrote its message, timed out and closed, with its failure
\* reported: one attempt, one message
C17_Witness ==
    /\ TimedOut /\ sock = "closed" /\ pc = "done"
    /\ Count("connect") = 1 /\ Len(written) = 1

\* C25: the command message is written exactly once in a session that
\* connects, after the connection is established and before any inbound data
\* is processed; it is the JSON text of the wire record followed by a single
\* newline; in a session that fails before connecting nothing is written and
\* no inbound data is processed.
C25_WrittenOnceOnConnect ==
    /\ [](/\ Len(written) = (IF connectedAt >= 0 THEN 1 ELSE 0)
          /\ Count("write") = Len(written)
          /\ written # <<>> =>
                /\ written[1].json = JSONStringify(wireCommand)
                /\ written[1].terminator = <<"\n">>
          /\ connectedAt < 0 =>
                /\ written = <<>>
                /\ received = <<>> /\ decoded = <<>> /\ buffer = <<>>
                /\ outcome.state # "fulfilled")
    /\ [][(written' # written) =>
            /\ sock = "connecting" /\ sock' = "connected"
            /\ written = <<>> /\ received = <<>>]_vars
    /\ [][(received' # received) => (Len(written) = 1 /\ written' = written)]_vars

\* a session that wrote its one message on connecting and then took its
\* response from the peer's data
C25_Witness ==
    /\ outcome.state = "fulfilled"
    /\ written = <<[json |-> JSONStringify(wireCommand), terminator |-> <<"\n">>]>>
    /\ received # <<>>
    /\ log[1] = "connect" /\ log[2] = "write"

----------------------------------------------------------------------------
(* Properties of validation and translation *)

\* const message = JSON.stringify(command): the record put on the wire
Message == JSONStringify(wireCommand)

Supplied(k) == req.body.params[k] # Undefined

DriveCommands == {"forward", "backward", "left", "right", "turret_left", "turret_right"}

\* the command table: the default speed of each drive and turret command
TableSpeed(c) ==
    CASE c \in {"forward", "backward"} -> 500
      [] c \in {"left", "right"} -> 300
      [] c \in {"turret_left", "turret_right"} -> 200

\* the command table: action and direction
TableAction(c) ==
    CASE c \in {"forward", "backward", "left", "right"} -> "move"
      [] c \in {"turret_left", "turret_right"} -> "turret"
      [] c = "get_status" -> "status"
      [] c = "get_help" -> "help"
      [] c = "joystick_control" -> "joystick"
      [] OTHER -> c

TableDirection(c) ==
    CASE c = "forward" -> "forward"
      [] c = "backward" -> "backward"
      [] c \in {"left", "turret_left"} -> "left"
      [] c \in {"right", "turret_right"} -> "right"

\* the row of the command table for a command called without parameters
TableRow(c) ==
    IF c \in DriveCommands
    THEN [action |-> Str(TableAction(c)), direction |-> Str(TableDirection(c)),
          speed |-> Num(TableSpeed(c)), duration |-> Num(0)]
    ELSE IF c = "joystick_control"
    THEN [action |-> Str("joystick"), l_left |-> Num(0), l_forward |-> Num(0),
          r_left |-> Num(0), r_forward |-> Num(0)]
    ELSE IF c = "speak"
    THEN [action |-> Str("speak"), text |-> req.body.params["text"]]
    ELSE [action |-> Str(TableAction(c))]

ValidText(x) == x.t = "string" /\ Len(x.s) >= 1 /\ Len(x.s) <= MAX_TEXT_LENGTH

\* the request names a recognized command
Recognized == req.body.command.t = "string" /\ req.body.command.s \in validCommands

\* C7: for the drive and turret commands a supplied speed or duration is put on
\* the wire unchanged, 0 included; the default is used only when the parameter
\* is absent.
C7_SuppliedValuesKept ==
    (pc = "awaiting" /\ req.body.command.s \in DriveCommands) =>
        /\ Message["speed"] = IF Supplied("speed") THEN req.body.params["speed"]
                              ELSE Num(TableSpeed(req.body.command.s))
        /\ Message["duration"] = IF Supplied("duration") THEN req.body.params["duration"]
                                 ELSE Num(0)

\* the request carries no parameter (speak: only a valid text)
NoParameters ==
    IF req.body.command.s = "speak"
    THEN /\ ValidText(req.body.params["text"])
         /\ \A k \in ParamNames \ {"text"} : ~Supplied(k)
    ELSE \A k \in ParamNames : ~Supplied(k)

\* C8: each of the 14 commands called without parameters is accepted and its
\* wire record is exactly the row of the command table.
C8_DefaultsMatchTable ==
    (pc # "pending" /\ Recognized /\ NoParameters) =>
        /\ pc = "awaiting"
        /\ Message = TableRow(req.body.command.s)

C8_Witness ==
    /\ pc = "awaiting" /\ NoParameters
    /\ req.body.command.s = "turret_left"
    /\ Message["speed"] = Num(200)

\* the response of the handler is the error `message`
FailedWith(messages) ==
    /\ pc = "done"
    /\ sock = "none"
    /\ written = <<>>
    /\ Len(responses) = 1
    /\ "error" \in DOMAIN responses[1].body
    /\ responses[1].body.error \in messages

RangeErrors == {"Speed must be between 0 and 2000",
                "Duration cannot exceed 10 seconds for safety"}

SpeedOutside ==
    /\ req.body.params["speed"].t = "number"
    /\ (req.body.params["speed"].n < 0 \/ req.body.params["speed"].n > MAX_SPEED)

DurationOver ==
    /\ req.body.params["duration"].t = "number"
    /\ req.body.params["duration"].n > MAX_DURATION

\* C9: for every recognized command, a numeric speed outside [0,2000] or a
\* numeric duration above 10 fails the request with a range error and opens no
\* connection; with the speed inside [0,2000] and the duration at most 10 no
\* range error is reported.
C9_RangeChecks ==
    (pc # "pending" /\ Recognized) =>
        IF SpeedOutside \/ DurationOver THEN FailedWith(RangeErrors)
        ELSE ~FailedWith(RangeErrors)

\* beep with a duration of 11 is refused although beep's duration is not a time
C9_Witness ==
    /\ req.body.command.s = "beep"
    /\ req.body.params["duration"] = Num(MAX_DURATION + 1)
    /\ ~SpeedOutside
    /\ FailedWith({"Duration cannot exceed 10 seconds for safety"})

TextErrors == {"Text parameter is required for speak command",
               "Text length cannot exceed 500 characters"}

\* C10: speak fails when text is missing, is not a string or is longer than 500
\* characters, and succeeds for every string of 1 to 500 characters, with the
\* wire record the action speak and the text unchanged.
C10_SpeakText ==
    (pc # "pending" /\ req.body.command.s = "speak") =>
        LET text == req.body.params["text"]
        IN  /\ (text = Undefined \/ text.t # "string" \/ Len(text.s) > MAX_TEXT_LENGTH) =>
                   FailedWith(TextErrors \cup RangeErrors)
            /\ (ValidText(text) /\ ~SpeedOutside /\ ~DurationOver) =>
                   /\ pc = "awaiting"
                   /\ Message = [action |-> Str("speak"), text |-> text]

\* a text of exactly 500 characters is accepted
C10_Witness ==
    /\ pc = "awaiting"
    /\ req.body.command.s = "speak"
    /\ Len(req.body.params["text"].s) = MAX_TEXT_LENGTH
    /\ Message["text"] = req.body.params["text"]

\* the parameters no command of the table has
Unrecognized == {"note", "action"}

\* the command table: the fields of the wire record of a command
TableFields(c) ==
    IF c \in DriveCommands THEN {"action", "direction", "speed", "duration"}
    ELSE IF c = "joystick_control"
    THEN {"action", "l_left", "l_forward", "r_left", "r_forward"}
    ELSE IF c = "speak" THEN {"action", "text"}
    ELSE IF c = "beep" THEN {"action", "frequency", "duration"}
    ELSE {"action"}

\* the parameters of the request without the unrecognized ones
RecognizedParams ==
    [k \in ParamNames |-> IF k \in Unrecognized THEN Undefined ELSE req.body.params[k]]

\* C16: the wire record has only the fields the command table lists for the
\* command: a parameter the command does not use, or that no command knows,
\* is not on the wire, not even as a null or undefined placeholder, the
\* action stays the table's action, and an unrecognized parameter does not
\* make a request fail that is valid without it.
C16_OnlyTableFields ==
    /\ pc = "awaiting" =>
          /\ DOMAIN wireCommand \subseteq TableFields(req.body.command.s)
          /\ \A k \in DOMAIN wireCommand : wireCommand[k] \notin {Null, Undefined}
          /\ Message["action"] = Str(TableAction(req.body.command.s))
    /\ (pc # "pending" /\ Recognized
            /\ validateCommand(req.body.command, RecognizedParams) = "") =>
          pc = "awaiting"

\* stop called with a speed, a duration and two unknown parameters, one of
\* them named action: the wire record is the action alone
C16_Witness ==
    /\ pc = "awaiting"
    /\ req.body.command.s = "stop"
    /\ Supplied("speed") /\ Supplied("duration")
    /\ Supplied("note") /\ Supplied("action")
    /\ Message = [action |-> Str("stop")]

\* C26: the wire record of an accepted beep has action beep, frequency if
\* and only if frequency was supplied and duration if and only if duration
\* was supplied, each with exactly the supplied value (0 included), and
\* neither speed nor direction.
C26_BeepFields ==
    (pc = "awaiting" /\ req.body.command = Str("beep")) =>
        /\ Message["action"] = Str("beep")
        /\ \A k \in {"frequency", "duration"} :
              /\ k \in DOMAIN Message <=> Supplied(k)
              /\ Supplied(k) => Message[k] = req.body.params[k]
        /\ "speed" \notin DOMAIN Message
        /\ "direction" \notin DOMAIN Message

\* beep called with frequency 0, duration 0 and a speed: both zeros are on
\* the wire and the speed is not
C26_Witness ==
    /\ pc = "awaiting"
    /\ req.body.command = Str("beep")
    /\ req.body.params["frequency"] = Num(0)
    /\ req.body.params["duration"] = Num(0)
    /\ req.body.params["speed"] = Num(MAX_SPEED)
    /\ Message = [action |-> Str("beep"), frequency |-> Num(0), duration |-> Num(0)]

\* the verdict of the handler on the request of invocation s: accepted, or
\* the error it answered with before any connection
Verdict(s) ==
    IF s.sock # "none" THEN "accepted" ELSE s.responses[1].body.error

----------------------------------------------------------------------------
(* Properties of the gate in front of the connection *)

\* the first check of the gate that the request fails, in the order API key,
\* rate limit, command validation; "" when it passes all three
GateError ==
    IF validateApiKey(req.headers) # "" THEN validateApiKey(req.headers)
    ELSE IF ~LastCall.accepted THEN "Rate limit exceeded. Please try again later."
    ELSE IF Truthy(req.body.command)
    THEN validateCommand(req.body.command, req.body.params)
    ELSE ""

\* C11: a connection is opened only after the API key check, the rate-limit
\* check and command validation have passed, in this order: a request that
\* fails one of them is answered with the error of the first check it fails,
\* with no socket created, nothing written and no session effect, and a
\* request with a bad key never reaches the rate limiter.
C11_GateBeforeConnect ==
    /\ []((pc # "pending" /\ req.method = "POST" /\ GateError # "") =>
             FailedWith({GateError}) /\ log = <<>>)
    /\ [](sock # "none" =>
             req.method = "POST" /\ GateError = "" /\ Truthy(req.body.command))
    /\ [][validateApiKey(req.headers) # "" => calls' = calls]_vars

\* a request over the rate limit that also names an unknown command is
\* answered with the rate-limit error, without a connection
C11_Witness ==
    /\ pc = "done"
    /\ req.body.command = Str("dance")
    /\ ~LastCall.accepted
    /\ FailedWith({"Rate limit exceeded. Please try again later."})

\* the key the request supplies: the x-api-key header when it has one, else
\* what follows Bearer in the authorization header; "" when neither has one
SuppliedKey ==
    IF req.headers.xApiKey.t = "string" /\ req.headers.xApiKey.s # ""
    THEN req.headers.xApiKey.s
    ELSE IF req.headers.authorization.t # "string" THEN ""
    ELSE IF req.headers.authorization.s = "Bearer " \o API_KEY THEN API_KEY
    ELSE IF req.headers.authorization.s = "Bearer wrong-key" THEN "wrong-key"
    ELSE req.headers.authorization.s

\* the handler runs on a POST request in this step
Authenticates == pc = "pending" /\ pc' # "pending" /\ req.method = "POST"

\* C21: a request that supplies no key is refused with the missing-key error
\* and one that supplies another key than the configured one with the
\* invalid-key error; in both cases the rate limiter is not called:
\* requestCounts and its timers are as before and no call is counted.
C21_KeyErrors ==
    [][(Authenticates /\ SuppliedKey # API_KEY) =>
          /\ responses' = <<Reply(401, [error |-> IF SuppliedKey = ""
                                                 THEN "API key is required"
                                                 ELSE "Invalid API key"])>>
          /\ requestCounts' = requestCounts
          /\ cleanups' = cleanups
          /\ calls' = calls
          /\ sock' = "none"]_vars

\* a wrong x-api-key was refused although the authorization header had the
\* right key, and the client's quota is as it was
C21_Witness ==
    /\ pc = "done"
    /\ req.headers.xApiKey = Str("wrong-key")
    /\ req.headers.authorization = Str("Bearer " \o API_KEY)
    /\ responses = <<Reply(401, [error |-> "Invalid API key"])>>
    /\ requestCounts = [c \in {} |-> <<>>]

\* C20: every response of the handler, on success and on every failure
\* path, is the envelope: success (a boolean), command, timestamp, and result
\* when it succeeded or the error text when it failed.
C20_UniformEnvelope ==
    \A i \in 1..Len(responses) :
        LET body == responses[i].body
        IN  /\ {"success", "command", "timestamp"} \subseteq DOMAIN body
            /\ body.success \in BOOLEAN
            /\ IF body.success THEN "result" \in DOMAIN body
               ELSE "error" \in DOMAIN body

----------------------------------------------------------------------------
(* Properties of two invocations in flight *)

\* the invocation s has what its own request and its own socket gave it:
\* the wire record of its command, its message written at most once, the
\* buffer and the value that the chunks of its socket leave, and a response
\* that reports its own outcome
OwnOnly(s) ==
    LET args == CommandSwitch(s.req.body.command, s.req.body.params)
        own == BuildCommand(args.action, args.direction, args.speed,
                            args.duration, args.extraParams)
        value == ProcessMessages(Complete(Split(s.decoded)), 1)
    IN  /\ s.pc # "pending" => s.wireCommand = own
        /\ s.written \in {<<>>, <<FullMessage(own)>>}
        /\ s.decoded = toString(s.received)
        /\ s.buffer = Remainder(Split(s.decoded))
        /\ s.outcome.state = "fulfilled" => s.outcome.value = value
        /\ s.outcome.state = "pending" => value = NoValue
        /\ Len(s.responses) <= 1
        /\ \A i \in 1..Len(s.responses) :
               IF s.responses[i].status = 200
               THEN /\ s.outcome.state = "fulfilled"
                    /\ s.responses[i].body.command = s.req.body.command
                    /\ s.responses[i].body.result = s.outcome.value
               ELSE /\ s.outcome.state = "rejected"
                    /\ s.responses[i].body.error = s.outcome.reason

\* a step of the socket of the invocation whose callbacks run
SocketEvent == sock # "none" /\ req' = req /\ (sock' # sock \/ received' # received)

\* C19: with two invocations in flight and their socket events interleaved
\* in any order, each session's buffer and resolved value come from the
\* chunks of its own socket alone, and a socket event of one invocation,
\* its timeout, error and close included, changes nothing of the other
\* invocation nor of the rate limiter that a later invocation consults.
C19_SessionsIsolated ==
    /\ [](OwnOnly(Current) /\ OwnOnly(parked))
    /\ [][SocketEvent => /\ parked' = parked
                         /\ requestCounts' = requestCounts
                         /\ cleanups' = cleanups
                         /\ calls' = calls]_vars

\* one session resolved with the line of its own socket while the other,
\* which had received the start of a line, timed out with it in its buffer
C19_Witness ==
    /\ outcome.state = "fulfilled" /\ received = <<"1", "\n">> /\ buffer = <<>>
    /\ pc = "done" /\ responses[1].status = 200
    /\ parked.outcome = Rejected("Connection timeout")
    /\ parked.buffer = <<"1">>
    /\ parked.pc = "done"

----------------------------------------------------------------------------
(* Properties of the rate limiter *)

\* the accepted calls of the client of call i that are before it in the
\* history and strictly inside the window that ends at call i
AcceptedInWindowBefore(i) ==
    {j \in 1..(i - 1) : /\ calls[j].client = calls[i].client
                        /\ calls[j].accepted
                        /\ calls[j].time > calls[i].time - RATE_LIMIT_WINDOW}

\* the accepted calls of a client strictly inside the window that ends now
AcceptedInWindowNow(clientId) ==
    {j \in 1..Len(calls) : /\ calls[j].client = clientId
                           /\ calls[j].accepted
                           /\ calls[j].time > now - RATE_LIMIT_WINDOW}

\* C18: rateLimitCheck rejects a call exactly when 100 accepted calls of the
\* same client are strictly inside the 60000 ms before it, and otherwise
\* accepts and records it: stated of the latest call of the history, which
\* every call is when it is made.  Hence a window never holds more than 100
\* accepted calls of a client, the map counts for each client exactly its
\* accepted calls inside the window, and the rejected request is answered
\* with the rate-limit error.
C18_RateLimit ==
    LET i == Len(calls)
    IN  /\ calls[i].accepted <=>
               Cardinality(AcceptedInWindowBefore(i)) < MAX_REQUESTS_PER_WINDOW
        /\ Cardinality(AcceptedInWindowBefore(i)) <= MAX_REQUESTS_PER_WINDOW
        /\ \A c \in {r.client : r \in {calls[j] : j \in 1..i}} :
               /\ Len(RecentRequests(requestCounts, c, now)) =
                      Cardinality(AcceptedInWindowNow(c))
               /\ Cardinality(AcceptedInWindowNow(c)) <= MAX_REQUESTS_PER_WINDOW
        /\ (calls[i].accepted /\ calls[i].time > now - RATE_LIMIT_WINDOW) =>
               /\ calls[i].client \in DOMAIN requestCounts
               /\ requestCounts[calls[i].client] # <<>>
               /\ LET requests == requestCounts[calls[i].client]
                  IN  requests[Len(requests)] = calls[i].time
        /\ (pc = "done" /\ calls[i].time = now /\ calls[i].client = getClientId(req)) =>
               (~calls[i].accepted <=>
                    responses = <<Reply(401,
                        [error |-> "Rate limit exceeded. Please try again later."])>>)

\* with 100 calls accepted at time 0, the client was refused 59999 ms later
\* and accepted 60000 ms later, when those calls had left the window
C18_Witness ==
    /\ pc = "done"
    /\ Len(calls) = MAX_REQUESTS_PER_WINDOW + MaxCalls
    /\ LastCall = Call(FirstClient, RATE_LIMIT_WINDOW, TRUE)
    /\ calls[Len(calls) - 1] = Call(FirstClient, RATE_LIMIT_WINDOW - 1, FALSE)
    /\ Cardinality(AcceptedInWindowNow(FirstClient)) = 1

\* the cleanup timers of client c that have not fired
TimersOf(c) == {timer \in cleanups : timer.client = c}

\* the accepted calls of client c
AcceptedCalls(c) == {i \in 1..Len(calls) : calls[i].client = c /\ calls[i].accepted}

\* C27: entries do not accumulate: once the cleanup timers of a client's
\* accepted calls have fired, one window after its last accepted call, its
\* entry is gone from requestCounts, and an entry never holds more than
\* MAX_REQUESTS_PER_WINDOW timestamps.
C27_EntriesRemoved ==
    /\ \A c \in DOMAIN requestCounts :
          /\ TimersOf(c) # {}
          /\ Len(requestCounts[c]) \in 1..MAX_REQUESTS_PER_WINDOW
          /\ LET requests == requestCounts[c]
             IN  [client |-> c, due |-> requests[Len(requests)] + RATE_LIMIT_WINDOW]
                     \in cleanups
    /\ \A timer \in cleanups :
          \E i \in AcceptedCalls(timer.client) :
              timer.due = calls[i].time + RATE_LIMIT_WINDOW
    /\ \A c \in {calls[i].client : i \in 1..Len(calls)} :
          TimersOf(c) = {} =>
              /\ c \notin DOMAIN requestCounts
              /\ \A i \in AcceptedCalls(c) : calls[i].time + RATE_LIMIT_WINDOW <= now

\* the first client made a call that was accepted and no call after it; a
\* window later its last timer has fired and its entry is gone
C27_Witness ==
    /\ Len(calls) > MAX_REQUESTS_PER_WINDOW
    /\ LastCall.client = FirstClient
    /\ LastCall.accepted
    /\ LastCall.time > 0
    /\ now = LastCall.time + RATE_LIMIT_WINDOW
    /\ TimersOf(FirstClient) = {}
    /\ FirstClient \notin DOMAIN requestCounts

\* the accepted calls of client c that are inside the window at time t
AcceptedInside(c, t) == {i \in AcceptedCalls(c) : calls[i].time > t - RATE_LIMIT_WINDOW}

\* the step is a call of rateLimitCheck
Checks == Len(calls') = Len(calls) + 1

\* C28: a rejected call leaves requestCounts as it was and schedules no
\* cleanup; rejected calls are not counted, so a client that keeps calling
\* while blocked is accepted as soon as fewer than MAX_REQUESTS_PER_WINDOW of
\* its accepted calls are inside the window.
C28_RejectedLeavesNoTrace ==
    /\ [][(Checks /\ ~calls'[Len(calls')].accepted) =>
            /\ requestCounts' = requestCounts
            /\ cleanups' = cleanups
            /\ responses' = <<Reply(401, [error |-> "Rate limit exceeded. Please try again later."])>>]_vars
    /\ [][Checks =>
            (calls'[Len(calls')].accepted <=>
                Cardinality(AcceptedInside(getClientId(req), now)) < MAX_REQUESTS_PER_WINDOW)]_vars
    /\ [](\A i \in 1..Len(calls) :
             (~calls[i].accepted /\ \A j \in AcceptedCalls(calls[i].client) :
                                        calls[j].time # calls[i].time) =>
                 /\ [client |-> calls[i].client, due |-> calls[i].time + RATE_LIMIT_WINDOW]
                        \notin cleanups
                 /\ \A k \in 1..Len(RequestsOf(requestCounts, calls[i].client)) :
                        requestCounts[calls[i].client][k] # calls[i].time)

\* the first client called twice while blocked and was accepted on the call
\* that found the window empty: only that call is recorded
C28_Witness ==
    /\ pc = "done"
    /\ Len(calls) >= 3
    /\ calls[Len(calls) - 2] = Call(FirstClient, 0, FALSE)
    /\ calls[Len(calls) - 1] = Call(FirstClient, 1, FALSE)
    /\ calls[Len(calls)] = Call(FirstClient, RATE_LIMIT_WINDOW, TRUE)
    /\ requestCounts[FirstClient] = <<RATE_LIMIT_WINDOW>>
    /\ TimersOf(FirstClient) \subseteq
           {[client |-> FirstClient, due |-> t] : t \in {RATE_LIMIT_WINDOW, 2 * RATE_LIMIT_WINDOW}}

----------------------------------------------------------------------------
(* Properties of the framing *)

\* the value the data handler resolves with when all of `bytes` is one chunk
OneChunk(bytes) == ProcessMessages(Complete(MessagesOf(<<>>, toString(bytes))), 1)

\* C12: the resolved response does not depend on how the byte stream is cut
\* into chunks: whatever the chunks were, the session is where the delivery
\* of the same bytes in one chunk puts it, resolved with the same value or
\* still waiting.
C12_ChunkingIndependent ==
    (sock \in {"connected", "destroyed", "closed"}) =>
        outcome = IF OneChunk(received) = NoValue THEN Pending
                  ELSE Fulfilled(OneChunk(received))

\* the complete lines the data handler has been through, in arrival order
Lines == Complete(Split(decoded))

\* a line the handler neither skips as empty nor discards as a greeting
Candidate(line) == Trim(line) # <<>> /\ ~IsGreeting(line)

CandidatesFrom(i) == {k \in i..Len(Lines) : Candidate(Lines[k])}

\* the first candidate at or after line i
FirstFrom(i) == CHOOSE k \in CandidatesFrom(i) : \A j \in CandidatesFrom(i) : k <= j

\* the response a line stands for: its JSON value, else its trimmed text
ValueOf(line) ==
    IF JSONParse(line).ok THEN JSONParse(line).value
    ELSE [kind |-> "text", num |-> 0, chars |-> Trim(line)]

\* C13: a complete greeting line (one that contains Welcome or Send JSON) is
\* discarded, valid JSON or not: while greetings and empty lines are all that
\* has arrived the session is unresolved, and once resolved the response is
\* that of no greeting line but of the first non-empty non-greeting line,
\* whether it came in the greeting's chunk or in a later one.
C13_GreetingsDiscarded ==
    \A i \in 1..Len(Lines) :
        (IsGreeting(Lines[i]) /\ CandidatesFrom(1) \cap 1..i = {}) =>
            /\ outcome.state = "fulfilled" =>
                  /\ outcome.value # ValueOf(Lines[i])
                  /\ ~IsGreeting(outcome.value.chars)
            /\ IF CandidatesFrom(i) = {} THEN outcome = Pending
               ELSE outcome = Fulfilled(ValueOf(Lines[FirstFrom(i)]))

\* a greeting that is valid JSON was discarded and the line after it is
\* the response
C13_Witness ==
    /\ Len(Lines) >= 2
    /\ Lines[1] = <<"\"", "W", "\"">>
    /\ JSONParse(Lines[1]).ok
    /\ outcome = Fulfilled(ValueOf(Lines[2]))
    /\ Lines[2] = <<"1">>
    /\ buffer = <<>>

\* C14: when the first non-empty non-greeting line does not parse as JSON the
\* session is fulfilled, not rejected, and the response is the fallback text:
\* the line with the surrounding white space trimmed.
C14_TextFallback ==
    (CandidatesFrom(1) # {} /\ ~JSONParse(Lines[FirstFrom(1)]).ok) =>
        /\ outcome.state = "fulfilled"
        /\ outcome.value.kind = "text"
        /\ outcome.value.chars = Trim(Lines[FirstFrom(1)])
        /\ outcome.value.chars # <<>>
        /\ outcome.value.chars[1] \notin WhiteSpace
        /\ outcome.value.chars[Len(outcome.value.chars)] \notin WhiteSpace

\* a line of text with white space around it resolved as the text alone
C14_Witness ==
    /\ Len(Lines) >= 1
    /\ Lines[1] = <<" ", "\"", " ">>
    /\ outcome = Fulfilled([kind |-> "text", num |-> 0, chars |-> <<"\"">>])
    /\ sock \in {"destroyed", "closed"}

\* C15: the accepted response is the first complete line in arrival order
\* that is neither empty, white space only, nor a greeting; the session is
\* unresolved until that line is complete, and lines after it, in the same
\* chunk or later, are not processed and never replace the resolved value.
C15_FirstLineWins ==
    /\ [](sock \in {"connected", "destroyed", "closed"} =>
            outcome = IF CandidatesFrom(1) = {} THEN Pending
                      ELSE Fulfilled(ValueOf(Lines[FirstFrom(1)])))
    /\ [][Settled => outcome' = outcome /\ decoded' = decoded /\ buffer' = buffer]_vars

\* two lines that would each resolve arrived in one chunk after an empty
\* line: the first of them is the response
C15_Witness ==
    /\ Len(Lines) = 3
    /\ Trim(Lines[1]) = <<>>
    /\ Lines[2] = <<"\"">>
    /\ Lines[3] = <<"1">>
    /\ outcome = Fulfilled(ValueOf(Lines[2]))
    /\ sock = "closed"

\* the position of the last line terminator in str, 0 when it has none
LastTerminator(str) ==
    IF \A i \in 1..Len(str) : str[i] # "\n" THEN 0
    ELSE CHOOSE i \in 1..Len(str) :
             str[i] = "\n" /\ \A j \in (i + 1)..Len(str) : str[j] # "\n"

\* the text received after the last line terminator
Unterminated == SubSeq(decoded, LastTerminator(decoded) + 1, Len(decoded))

\* the lines whose terminator has been received
Terminated ==
    IF LastTerminator(decoded) = 0 THEN <<>>
    ELSE Split(SubSeq(decoded, 1, LastTerminator(decoded) - 1))

\* the longest line of the peer
LongestLine == CHOOSE n \in {Len(l) : l \in PeerLines} : \A l \in PeerLines : Len(l) <= n

\* C23: after every data event the buffer holds no line terminator and is
\* exactly the text received after the last terminator (empty when the data
\* ended with one): its length is bounded by the longest unterminated run,
\* not by the traffic.
C23_BufferIsRemainder ==
    /\ \A i \in 1..Len(buffer) : buffer[i] # "\n"
    /\ buffer = Unterminated
    /\ Len(buffer) <= LongestLine
    /\ Len(decoded) >= Len(buffer) + Len(Terminated)

\* two greeting lines were taken out of the buffer and the start of the
\* third line is kept
C23_Witness ==
    /\ Terminated = << <<"W">>, <<"S">> >>
    /\ decoded = <<"W", "\n", "S", "\n", " ", "1">>
    /\ buffer = <<" ", "1">>
    /\ outcome = Pending

\* C24: a session never resolves on unterminated data: it is fulfilled only
\* with the value of a line whose terminator has arrived, the text after the
\* last terminator stays in the buffer, and the peer closing the connection
\* leaves the buffer unparsed and the session unresolved.
C24_NoResolveOnUnterminated ==
    /\ [](/\ outcome.state = "fulfilled" =>
                \E i \in 1..Len(Terminated) :
                    /\ Candidate(Terminated[i])
                    /\ outcome = Fulfilled(ValueOf(Terminated[i]))
          /\ (\A i \in 1..Len(Terminated) : ~Candidate(Terminated[i])) =>
                /\ outcome = Pending
                /\ responses = <<>>
                /\ buffer = Unterminated)
    /\ [][(sock = "connected" /\ sock' = "destroyed" /\ peerEnded') =>
            /\ outcome' = outcome
            /\ buffer' = buffer
            /\ responses' = responses]_vars
    /\ [][(sock' = "closed") =>
            /\ outcome' = outcome
            /\ buffer' = buffer
            /\ responses' = responses]_vars

\* a complete JSON value arrived without its terminator, the peer closed the
\* connection, and the session is unresolved with the value in the buffer
C24_Witness ==
    /\ decoded = <<"1">>
    /\ JSONParse(Unterminated).ok
    /\ peerEnded
    /\ sock = "closed"
    /\ buffer = <<"1">>
    /\ outcome = Pending
    /\ responses = <<>>


====
